---------------------------- MODULE Spec2Model ----------------------------
(***************************************************************************)
(* Model of the encryption service of the shared SDK and of its lifecycle  *)
(* (singleton factory, lazy initialisation, deferred-access proxy).        *)
(*                                                                         *)
(* A JavaScript string is a sequence of UTF-16 code units (naturals below  *)
(* 65536); a Buffer is a sequence of bytes (0..255).  The AES block        *)
(* primitive and SHA-256 are library code: they are modelled by a keyed    *)
(* permutation of 16-byte blocks and by a keyless digest of 32 bytes.      *)
(***************************************************************************)
EXTENDS Integers, Sequences, FiniteSets, TLC

-----------------------------------------------------------------------------
(* Program constants                                                       *)

KeyBytes == 32

IvBytes == 16

BlockSize == 16

KeyHexLen == 64

IvHexLen == 32

DigestBytes == 32

-----------------------------------------------------------------------------
(* Bounds of the model                                                     *)

\* number of EncryptionService objects a behaviour may construct
MaxObjects == 2

\* length of the varied part of a plaintext
MaxPrefix == 2

\* number of block boundaries the filler part of a plaintext reaches
MaxBlocks == 2

\* number of callers that use the accessor or the proxy side by side
NumCallers == 2

-----------------------------------------------------------------------------
(* Strings, hexadecimal and UTF-8                                          *)

Rep(n, x) == [i \in 1..n |-> x]

\* value of one hexadecimal digit, -1 for any other code unit
HexVal(c) ==
  IF c >= 48 /\ c <= 57 THEN c - 48
  ELSE IF c >= 97 /\ c <= 102 THEN c - 87
  ELSE IF c >= 65 /\ c <= 70 THEN c - 55
  ELSE -1

IsHexString(s) == \A i \in 1..Len(s) : HexVal(s[i]) >= 0

\* Buffer.from(s, 'hex'): whole pairs of digits, up to the first pair that
\* holds a character that is no hexadecimal digit; a trailing odd character
\* is dropped
HexDecode(s) ==
  LET half == Len(s) \div 2
      bad == {i \in 1..half : HexVal(s[2*i - 1]) < 0 \/ HexVal(s[2*i]) < 0}
      n == IF bad = {} THEN half
           ELSE (CHOOSE m \in bad : \A k \in bad : m <= k) - 1
  IN [i \in 1..n |-> 16 * HexVal(s[2*i - 1]) + HexVal(s[2*i])]

HexChar(n) == IF n < 10 THEN 48 + n ELSE 87 + n

\* buf.toString('hex'): two lowercase digits per byte
HexEncode(b) ==
  [i \in 1..(2 * Len(b)) |->
     IF i % 2 = 1 THEN HexChar(b[(i + 1) \div 2] \div 16)
                  ELSE HexChar(b[i \div 2] % 16)]

IsHighSurrogate(c) == c >= 55296 /\ c <= 56319

IsLowSurrogate(c) == c >= 56320 /\ c <= 57343

\* the UTF-8 bytes of one code point
Utf8OfCodePoint(cp) ==
  IF cp < 128 THEN <<cp>>
  ELSE IF cp < 2048 THEN <<192 + (cp \div 64), 128 + (cp % 64)>>
  ELSE IF cp < 65536
    THEN <<224 + (cp \div 4096), 128 + ((cp \div 64) % 64), 128 + (cp % 64)>>
  ELSE <<240 + (cp \div 262144), 128 + ((cp \div 4096) % 64),
         128 + ((cp \div 64) % 64), 128 + (cp % 64)>>

\* a string written out as UTF-8: a surrogate pair is one code point, an
\* unpaired surrogate is written as U+FFFD (EF BF BD)
RECURSIVE Utf8Encode(_)
Utf8Encode(s) ==
  IF s = <<>> THEN <<>>
  ELSE IF IsHighSurrogate(s[1]) /\ Len(s) >= 2 /\ IsLowSurrogate(s[2])
    THEN Utf8OfCodePoint(65536 + (s[1] - 55296) * 1024 + (s[2] - 56320))
           \o Utf8Encode(SubSeq(s, 3, Len(s)))
  ELSE IF IsHighSurrogate(s[1]) \/ IsLowSurrogate(s[1])
    THEN <<239, 191, 189>> \o Utf8Encode(Tail(s))
  ELSE Utf8OfCodePoint(s[1]) \o Utf8Encode(Tail(s))

\* length of the sequence a lead byte announces, 0 for a byte that can lead none
Utf8Need(b) ==
  IF b < 128 THEN 1
  ELSE IF b >= 194 /\ b <= 223 THEN 2
  ELSE IF b >= 224 /\ b <= 239 THEN 3
  ELSE IF b >= 240 /\ b <= 244 THEN 4
  ELSE 0

\* whether c may follow lead byte b as its second byte
Utf8SecondOk(b, c) ==
  IF b = 224 THEN c >= 160 /\ c <= 191
  ELSE IF b = 237 THEN c >= 128 /\ c <= 159
  ELSE IF b = 240 THEN c >= 144 /\ c <= 191
  ELSE IF b = 244 THEN c >= 128 /\ c <= 143
  ELSE c >= 128 /\ c <= 191

IsCont(c) == c >= 128 /\ c <= 191

\* the code units of one code point
UnitsOfCodePoint(cp) ==
  IF cp < 65536 THEN <<cp>>
  ELSE <<55296 + ((cp - 65536) \div 1024), 56320 + ((cp - 65536) % 1024)>>

\* bytes read as UTF-8; every ill-formed part becomes U+FFFD, nothing throws
RECURSIVE Utf8Decode(_)
Utf8Decode(b) ==
  IF b = <<>> THEN <<>>
  ELSE
    LET need == Utf8Need(b[1])
        \* how many bytes of the announced sequence are there and fit
        got == IF need <= 1 THEN 1
               ELSE IF Len(b) < 2 \/ ~Utf8SecondOk(b[1], b[2]) THEN 1
               ELSE IF need = 2 THEN 2
               ELSE IF Len(b) < 3 \/ ~IsCont(b[3]) THEN 2
               ELSE IF need = 3 THEN 3
               ELSE IF Len(b) < 4 \/ ~IsCont(b[4]) THEN 3
               ELSE 4
        cp == IF need = 1 THEN b[1]
              ELSE IF need = 2 THEN (b[1] - 192) * 64 + (b[2] - 128)
              ELSE IF need = 3
                THEN (b[1] - 224) * 4096 + (b[2] - 128) * 64 + (b[3] - 128)
              ELSE (b[1] - 240) * 262144 + (b[2] - 128) * 4096
                     + (b[3] - 128) * 64 + (b[4] - 128)
    IN IF need >= 1 /\ got = need
         THEN UnitsOfCodePoint(cp) \o Utf8Decode(SubSeq(b, need + 1, Len(b)))
         ELSE <<65533>> \o Utf8Decode(SubSeq(b, got + 1, Len(b)))

-----------------------------------------------------------------------------
(* Library primitives: the AES block permutation, CBC, padding, SHA-256    *)

RECURSIVE XorBits(_, _, _)
XorBits(a, b, n) ==
  IF n = 0 THEN 0
  ELSE ((a + b) % 2) + 2 * XorBits(a \div 2, b \div 2, n - 1)

\* exclusive or of two half bytes, tabulated
XorNibble == [a \in 0..15 |-> [b \in 0..15 |-> XorBits(a, b, 4)]]

\* exclusive or of two bytes
Xor(a, b) ==
  16 * XorNibble[a \div 16][b \div 16] + XorNibble[a % 16][b % 16]

XorBlock(x, y) == [i \in 1..BlockSize |-> Xor(x[i], y[i])]

\* the block cipher under a 32-byte key: a permutation of the 16-byte blocks
\* that depends on every key byte
AesEncryptBlock(key, blk) ==
  [i \in 1..BlockSize |->
     (Xor(blk[(i % BlockSize) + 1], key[i]) + key[BlockSize + i]) % 256]

\* the inverse permutation
AesDecryptBlock(key, blk) ==
  [j \in 1..BlockSize |->
     LET i == ((j + BlockSize - 2) % BlockSize) + 1
     IN Xor((blk[i] + 256 - key[BlockSize + i]) % 256, key[i])]

\* a padding that adds nothing to bytes that already fill whole blocks
Pkcs7PadToBoundary(b) ==
  LET n == (BlockSize - (Len(b) % BlockSize)) % BlockSize IN b \o Rep(n, n)

\* PKCS#7: 1..16 bytes are appended, each holding their number
Pkcs7Pad(b) ==
  LET n == BlockSize - (Len(b) % BlockSize) IN b \o Rep(n, n)

\* whether the last block ends in a well-formed padding
Pkcs7Ok(b) ==
  /\ Len(b) >= BlockSize
  /\ LET n == b[Len(b)]
     IN /\ n >= 1
        /\ n <= BlockSize
        /\ \A i \in (Len(b) - n + 1)..Len(b) : b[i] = n

Pkcs7Unpad(b) == SubSeq(b, 1, Len(b) - b[Len(b)])

\* CBC over whole blocks: each block is mixed with the previous ciphertext
\* block (the IV for the first) and then permuted
RECURSIVE CbcEncrypt(_, _, _)
CbcEncrypt(key, prev, b) ==
  IF b = <<>> THEN <<>>
  ELSE LET c == AesEncryptBlock(key, XorBlock(SubSeq(b, 1, BlockSize), prev))
       IN c \o CbcEncrypt(key, c, SubSeq(b, BlockSize + 1, Len(b)))

RECURSIVE CbcDecrypt(_, _, _)
CbcDecrypt(key, prev, b) ==
  IF b = <<>> THEN <<>>
  ELSE LET c == SubSeq(b, 1, BlockSize)
       IN XorBlock(AesDecryptBlock(key, c), prev)
            \o CbcDecrypt(key, c, SubSeq(b, BlockSize + 1, Len(b)))

\* cipher.update(bytes) followed by cipher.final(): the whole ciphertext
CipherBytes(key, iv, plain) == CbcEncrypt(key, iv, Pkcs7Pad(plain))

\* the digest of a byte sequence: 32 bytes that depend on the bytes alone
RECURSIVE Mix(_, _)
Mix(h, b) ==
  IF b = <<>> THEN h
  ELSE Mix((h * 31 + b[1] + 1) % 65521, Tail(b))

Sha256(b) ==
  LET h == Mix(Len(b) + 7, b)
  IN [i \in 1..DigestBytes |-> (h * i + (h \div 256) + i * i) % 256]

-----------------------------------------------------------------------------
(* Values and outcomes                                                     *)

\* an optional string: undefined, or a string (possibly empty)
Undefined == [present |-> FALSE, val |-> <<>>]

Str(s) == [present |-> TRUE, val |-> s]

\* JavaScript's !v for an optional string: undefined and '' are falsy
Falsy(v) == ~v.present \/ v.val = <<>>

\* JavaScript's a ?? b: b only when a is undefined
Coalesce(a, b) == IF a.present THEN a ELSE b

Null == 0

\* the outcome of a call: a normal return (of a string, an object reference,
\* a boolean, or nothing) or a thrown Error with its message
RetVoid ==
  [kind |-> "return", str |-> <<>>, obj |-> Null, flag |-> FALSE,
   error |-> "none", msg |-> <<>>]

RetStr(s) == [RetVoid EXCEPT !.str = s]

RetObj(o) == [RetVoid EXCEPT !.obj = o]

RetBool(b) == [RetVoid EXCEPT !.flag = b]

Throw(e, m) ==
  [kind |-> "throw", str |-> <<>>, obj |-> Null, flag |-> FALSE,
   error |-> e, msg |-> m]

\* no call
NoOutcome == [RetVoid EXCEPT !.kind = "none"]

-----------------------------------------------------------------------------
(* EncryptionService (encryption.service.ts)                               *)

\* the constructor's first guard: !secretKey || !iv
NewMissing(secretKey, iv) == Falsy(secretKey) \/ Falsy(iv)

\* a length check that only rejects keys that are too long
KeyLengthAtMost(key) == Len(key) <= KeyBytes

\* whether the decoded key and IV have the lengths AES-256-CBC needs
KeyLengthOk(key) == Len(key) = KeyBytes

IvLengthOk(iv) == Len(iv) = IvBytes

\* new EncryptionService({secretKey, iv}): the outcome, and the fields of
\* the object when the constructor returns
Constructor(secretKey, iv) ==
  LET key == HexDecode(secretKey.val)
      ivb == HexDecode(iv.val)
      fields == [secretKey |-> key, iv |-> ivb]
  IN IF NewMissing(secretKey, iv)
       THEN [out |-> Throw("ConfigurationError",
                           <<"EncryptionService requires secretKey and iv">>),
             fields |-> fields]
     ELSE IF ~KeyLengthOk(key)
       THEN [out |-> Throw("ConfigurationError",
                           <<"AES-256 requires a 32-byte secret key (64 hex chars)">>),
             fields |-> fields]
     ELSE IF ~IvLengthOk(ivb)
       THEN [out |-> Throw("ConfigurationError",
                           <<"AES-256-CBC requires a 16-byte IV (32 hex chars)">>),
             fields |-> fields]
     ELSE [out |-> RetVoid, fields |-> fields]

\* encrypt(plaintext) on an object with fields self
Encrypt(self, plaintext) ==
  RetStr(HexEncode(CipherBytes(self.secretKey, self.iv, Utf8Encode(plaintext))))

\* a decrypt that returns the output of update() and drops that of final()
DecryptWithoutFinal(self, ciphertext) ==
  LET data == HexDecode(ciphertext)
  IN IF Len(data) = 0 \/ Len(data) % BlockSize # 0
       THEN Throw("DecryptionError",
                  <<"Decryption failed: ", "wrong final block length">>)
       ELSE RetStr(Utf8Decode(SubSeq(CbcDecrypt(self.secretKey, self.iv, data),
                                     1, Len(data) - BlockSize)))

\* a decrypt with padding switched off: whatever the last block holds is
\* returned
DecryptNoPadding(self, ciphertext) ==
  IF Len(ciphertext) % 2 = 1
    THEN Throw("DecryptionError",
               <<"Decryption failed: ",
                 "The argument 'encoding' is invalid for data of odd length. Received 'hex'">>)
  ELSE
    LET data == HexDecode(ciphertext)
    IN IF Len(data) = 0 \/ Len(data) % BlockSize # 0
         THEN Throw("DecryptionError",
                    <<"Decryption failed: ", "wrong final block length">>)
       ELSE RetStr(Utf8Decode(CbcDecrypt(self.secretKey, self.iv, data)))

\* decrypt(ciphertext) on an object with fields self
Decrypt(self, ciphertext) ==
  IF Len(ciphertext) % 2 = 1
    THEN Throw("DecryptionError",
               <<"Decryption failed: ",
                 "The argument 'encoding' is invalid for data of odd length. Received 'hex'">>)
  ELSE
    LET data == HexDecode(ciphertext)
    IN IF Len(data) = 0 \/ Len(data) % BlockSize # 0
         THEN Throw("DecryptionError",
                    <<"Decryption failed: ", "wrong final block length">>)
       ELSE LET plain == CbcDecrypt(self.secretKey, self.iv, data)
            IN IF ~Pkcs7Ok(plain)
                 THEN Throw("DecryptionError",
                            <<"Decryption failed: ", "bad decrypt">>)
               ELSE RetStr(Utf8Decode(Pkcs7Unpad(plain)))

\* a hash that mixes the key in
HashKeyed(self, value) ==
  RetStr(HexEncode(Sha256(self.secretKey \o Utf8Encode(value))))

\* hash(value)
Hash(self, value) == RetStr(HexEncode(Sha256(Utf8Encode(value))))

\* the method prop of an object, called with one argument
CallMethod(self, prop, arg) ==
  CASE prop = "encrypt" -> Encrypt(self, arg)
    [] prop = "decrypt" -> Decrypt(self, arg)
    [] prop = "hash" -> Hash(self, arg)

-----------------------------------------------------------------------------
(* Inputs                                                                  *)

\* '0123456789abcdef' four times: a 64-character hexadecimal key
EnvKey == [i \in 1..KeyHexLen |-> HexChar((i - 1) % 16)]

\* 'abcdef9876543210' twice: a 32-character hexadecimal IV
EnvIv ==
  [i \in 1..IvHexLen |->
     LET k == (i - 1) % 16 IN IF k < 6 THEN 97 + k ELSE 63 - k]

\* another valid key ('fedcba9876543210' four times) and IV ('0f' sixteen times)
OtherKey == [i \in 1..KeyHexLen |-> HexChar(15 - ((i - 1) % 16))]

OtherIv == [i \in 1..IvHexLen |-> IF i % 2 = 1 THEN 48 ELSE 102]

\* '1234' and 'abcd': hexadecimal, but two bytes only
ShortKey == <<49, 50, 51, 52>>

ShortIv == <<97, 98, 99, 100>>

\* 64 and 32 characters that are no hexadecimal digits ('z')
JunkKey == Rep(KeyHexLen, 122)

JunkIv == Rep(IvHexLen, 122)

\* the 64-digit key followed by 'zz', and the 32-digit IV followed by one
\* more digit ('0')
TailKey == EnvKey \o <<122, 122>>

OddIv == EnvIv \o <<48>>

\* values the environment may hold for AES_SECRET_KEY and AES_IV
EnvKeyChoices == {Undefined, Str(EnvKey), Str(ShortKey), Str(<<>>)}

EnvIvChoices == {Undefined, Str(EnvIv), Str(ShortIv)}

\* what a caller may pass to initEncryptionService as {secretKey, iv}:
\* absent, empty, too short, not hexadecimal and valid values
InitPairs ==
  {<<Undefined, Undefined>>, <<Str(OtherKey), Str(OtherIv)>>,
   <<Str(OtherKey), Undefined>>, <<Undefined, Str(OtherIv)>>,
   <<Str(<<>>), Str(OtherIv)>>, <<Str(OtherKey), Str(<<>>)>>,
   <<Str(ShortKey), Str(ShortIv)>>, <<Str(JunkKey), Str(OtherIv)>>,
   <<Str(OtherKey), Str(JunkIv)>>, <<Str(OtherKey), Str(ShortIv)>>}

\* what a caller may pass to the constructor as {secretKey, iv}
NewPairs ==
  {<<Str(EnvKey), Str(EnvIv)>>, <<Str(OtherKey), Str(OtherIv)>>,
   <<Undefined, Str(EnvIv)>>, <<Str(EnvKey), Undefined>>,
   <<Str(<<>>), Str(EnvIv)>>, <<Str(EnvKey), Str(<<>>)>>,
   <<Str(ShortKey), Str(ShortIv)>>, <<Str(ShortKey), Str(EnvIv)>>,
   <<Str(EnvKey), Str(ShortIv)>>, <<Str(JunkKey), Str(EnvIv)>>,
   <<Str(EnvKey), Str(JunkIv)>>, <<Str(TailKey), Str(EnvIv)>>,
   <<Str(EnvKey), Str(OddIv)>>}

\* the code units the plaintexts are made of: 'a', U+20AC, and the two
\* halves of U+1F600 (a pair when in this order, unpaired otherwise)
Alphabet == {97, 8364, 55357, 56832}

SeqsUpTo(S, n) == UNION {[1..k -> S] : k \in 0..n}

\* lengths of the filler part: none, and around each block boundary
RunLengths ==
  {0} \cup {k * BlockSize - d : k \in 1..MaxBlocks, d \in 0..1}

\* plaintexts: a varied part followed by a run of 'a', so that the UTF-8
\* length falls before, on and after the block boundaries
Plaintexts ==
  {p \o Rep(r, 97) : p \in SeqsUpTo(Alphabet, MaxPrefix), r \in RunLengths}

\* the plaintext the lifecycle behaviours use: 'a' with U+20AC
Messages == {<<97, 8364>>}

\* 'deadbeef', 'abc', and one block of zero bytes
CorruptInputs ==
  {<<100, 101, 97, 100, 98, 101, 101, 102>>, <<97, 98, 99>>,
   HexEncode(Rep(BlockSize, 0))}

\* a string with its last character replaced by another hexadecimal digit
LastDigitChanged(c) ==
  [c EXCEPT ![Len(c)] = IF @ = 48 THEN 49 ELSE 48]

\* ciphertexts a service may be handed that it did not produce itself, for
\* a service with fields self whose caller encrypts s: the service's
\* ciphertext followed by 'zz', the same with its last digit changed, and
\* the encryptions under the service's key of bytes that are no UTF-8
\* (0xFF before the text, and the text followed by the first two bytes of
\* a three-byte character)
ReceivedCiphertexts(self, s) ==
  LET own == Encrypt(self, s).str
      bytes == Utf8Encode(s)
  IN {own \o <<122, 122>>,
      LastDigitChanged(own),
      HexEncode(CipherBytes(self.secretKey, self.iv, <<255>> \o bytes)),
      HexEncode(CipherBytes(self.secretKey, self.iv, bytes \o <<226, 130>>))}

Props == {"encrypt", "decrypt", "hash"}

-----------------------------------------------------------------------------
(* Configuration (configs.ts)                                              *)

\* /^[a-fA-F0-9]{n}$/ on an optional field: absent, or n hexadecimal digits
SchemaOk(v, n) == ~v.present \/ (Len(v.val) = n /\ IsHexString(v.val))

\* a schema whose two fields are required
ParseRequired(e) ==
  /\ e.AES_SECRET_KEY.present
  /\ e.AES_IV.present
  /\ SchemaOk(e.AES_SECRET_KEY, KeyHexLen)
  /\ SchemaOk(e.AES_IV, IvHexLen)

\* SharedEnvSchema.safeParse(process.env).success
ParseOk(e) ==
  SchemaOk(e.AES_SECRET_KEY, KeyHexLen) /\ SchemaOk(e.AES_IV, IvHexLen)

NoConfigs == [AES_SECRET_KEY |-> Undefined, AES_IV |-> Undefined]

-----------------------------------------------------------------------------
(* State                                                                   *)

VARIABLES
  env,         \* process.env: AES_SECRET_KEY and AES_IV
  loaded,      \* whether importing the SDK completed without throwing
  configs,     \* the frozen configs object
  instance,    \* the factory's singleton reference: Null or an object
  heap,        \* the EncryptionService objects constructed so far
  ref,         \* the caller's reference to an EncryptionService, or Null
  held,        \* the method the caller last took from the proxy
  plaintext,   \* the caller's plaintext
  last,        \* the latest call and its outcome
  callers      \* callers inside getEncryptionService() or the proxy's trap:
               \* each one's position and local values

vars ==
  <<env, loaded, configs, instance, heap, ref, held, plaintext, last, callers>>

\* the callers that may be inside the accessor or the trap
Callers == 1..NumCallers

\* a caller outside any call
Idle == [pc |-> "idle", via |-> "none", made |-> Null, got |-> Null]

NoCallers == [c \in Callers |-> Idle]

NoHeld == [self |-> Null, prop |-> "none"]

\* the record of a call: what was called, with what, on which object (self),
\* from which lifecycle state (pre), and how it ended; repeatOf is the
\* outcome of the call before it when that was the same call
Call(op, prop, a1, a2, arg, out) ==
  [op |-> op, prop |-> prop, secretKey |-> a1, iv |-> a2, arg |-> arg,
   self |-> Null, repeatOf |-> NoOutcome, pre |-> instance,
   preObjects |-> Len(heap), out |-> out]

ModuleLoad(e) ==
  [op |-> "load", prop |-> "none", secretKey |-> Undefined, iv |-> Undefined,
   arg |-> <<>>, self |-> Null, repeatOf |-> NoOutcome, pre |-> Null,
   preObjects |-> 0,
   out |-> IF ParseOk(e)
             THEN RetVoid
             ELSE Throw("Error",
                        <<"Missing or invalid environment variables for truehear-shared SDK.">>)]

\* importing the SDK: the environment is validated, configs is frozen, and
\* the singleton reference starts as null
Load(e) ==
  /\ env = e
  /\ loaded = ParseOk(e)
  /\ configs = IF ParseOk(e) THEN e ELSE NoConfigs
  /\ instance = Null
  /\ heap = <<>>
  /\ ref = Null
  /\ held = NoHeld
  /\ last = ModuleLoad(e)
  /\ callers = NoCallers

Init ==
  /\ \E k \in EnvKeyChoices, v \in EnvIvChoices :
       Load([AES_SECRET_KEY |-> k, AES_IV |-> v])
  /\ plaintext \in Messages

-----------------------------------------------------------------------------
(* The factory (encryption.factory.ts)                                     *)

\* new EncryptionService({secretKey, iv}) in the current heap: the outcome,
\* the heap afterwards and the new object (Null when the constructor throws)
New(secretKey, iv) ==
  LET c == Constructor(secretKey, iv)
  IN IF c.out.kind = "throw"
       THEN [out |-> c.out, heap |-> heap, obj |-> Null]
       ELSE [out |-> c.out, heap |-> Append(heap, c.fields),
             obj |-> Len(heap) + 1]

\* options?.secretKey ?? configs.AES_SECRET_KEY, and the same for iv;
\* options is [given, secretKey, iv], given = FALSE for a call without argument
\* a resolution with || in the place of ??: an empty override falls back too
ResolveKeyOr(options) ==
  IF options.given /\ ~Falsy(options.secretKey)
    THEN options.secretKey ELSE configs.AES_SECRET_KEY

ResolveKey(options) ==
  Coalesce(IF options.given THEN options.secretKey ELSE Undefined,
           configs.AES_SECRET_KEY)

ResolveIv(options) ==
  Coalesce(IF options.given THEN options.iv ELSE Undefined, configs.AES_IV)

\* a guard that needs both values to be missing
InitDisabledBoth(secretKey, iv) == Falsy(secretKey) /\ Falsy(iv)

\* the guard of the warning branch: !secretKey || !iv
InitDisabled(secretKey, iv) == Falsy(secretKey) \/ Falsy(iv)

\* an initialisation that clears the singleton before it constructs
InitEffectClearing(options) ==
  LET secretKey == ResolveKey(options)
      iv == ResolveIv(options)
      made == New(secretKey, iv)
  IN IF InitDisabled(secretKey, iv)
       THEN [out |-> RetVoid, instance |-> Null, heap |-> heap]
     ELSE IF made.out.kind = "throw"
       THEN [out |-> made.out, instance |-> Null, heap |-> heap]
     ELSE [out |-> RetVoid, instance |-> made.obj, heap |-> made.heap]

\* initEncryptionService(options): outcome, singleton and heap afterwards
InitEffect(options) ==
  LET secretKey == ResolveKey(options)
      iv == ResolveIv(options)
      made == New(secretKey, iv)
  IN IF InitDisabled(secretKey, iv)
       THEN [out |-> RetVoid, instance |-> Null, heap |-> heap]
     ELSE IF made.out.kind = "throw"
       THEN [out |-> made.out, instance |-> instance, heap |-> heap]
     ELSE [out |-> RetVoid, instance |-> made.obj, heap |-> made.heap]

\* a guard with || in the place of &&
ConfigHasEitherKey == ~Falsy(configs.AES_SECRET_KEY) \/ ~Falsy(configs.AES_IV)

\* AES_SECRET_KEY && AES_IV
ConfigHasKeys == ~Falsy(configs.AES_SECRET_KEY) /\ ~Falsy(configs.AES_IV)

NotInitialized ==
  Throw("NotInitializedError",
        <<"[shared] EncryptionService not initialized. ",
          "Call initEncryptionService() manually or set AES_SECRET_KEY/AES_IV in the environment.">>)

\* a lazy branch that returns the new object and forgets to store it
GetLazyNotStored ==
  IF ConfigHasKeys
    THEN LET made == New(configs.AES_SECRET_KEY, configs.AES_IV)
         IN IF made.out.kind = "throw"
              THEN [out |-> made.out, instance |-> instance, heap |-> heap]
              ELSE [out |-> RetObj(made.obj), instance |-> instance,
                    heap |-> made.heap]
    ELSE [out |-> NotInitialized, instance |-> instance, heap |-> heap]

\* a lazy branch that falls back to a built-in key and IV (zeros) when the
\* configuration lacks a value
GetLazyDefault ==
  LET k == IF ConfigHasKeys THEN configs.AES_SECRET_KEY ELSE Str(Rep(KeyHexLen, 48))
      v == IF ConfigHasKeys THEN configs.AES_IV ELSE Str(Rep(IvHexLen, 48))
      made == New(k, v)
  IN IF made.out.kind = "throw"
       THEN [out |-> made.out, instance |-> instance, heap |-> heap]
       ELSE [out |-> RetObj(made.obj), instance |-> made.obj, heap |-> made.heap]

\* the lazy branch of getEncryptionService, taken when instance is null
GetLazy ==
  IF ConfigHasKeys
    THEN LET made == New(configs.AES_SECRET_KEY, configs.AES_IV)
         IN IF made.out.kind = "throw"
              THEN [out |-> made.out, instance |-> instance, heap |-> heap]
              ELSE [out |-> RetObj(made.obj), instance |-> made.obj,
                    heap |-> made.heap]
    ELSE [out |-> NotInitialized, instance |-> instance, heap |-> heap]

\* an accessor that constructs a service on every call
GetEffectFresh == GetLazy

\* getEncryptionService(): outcome, singleton and heap afterwards
GetEffect ==
  IF instance # Null
    THEN [out |-> RetObj(instance), instance |-> instance, heap |-> heap]
    ELSE GetLazy

\* a message that does not say which property was asked for
AccessedBeforeInitUnnamed(prop) ==
  Throw("NotInitializedError",
        <<"[shared] EncryptionService accessed before initialization. ",
          "Please call initEncryptionService() or set AES_SECRET_KEY/AES_IV first.">>)

AccessedBeforeInit(prop) ==
  Throw("NotInitializedError",
        <<"[shared] EncryptionService accessed before initialization - cannot call \"",
          prop,
          "\". Please call initEncryptionService() or set AES_SECRET_KEY/AES_IV first.">>)

\* a lazy branch of the trap that binds the new object and does not store it
ProxyLazyNotStored(prop) ==
  IF ConfigHasKeys
    THEN LET made == New(configs.AES_SECRET_KEY, configs.AES_IV)
         IN IF made.out.kind = "throw"
              THEN [out |-> made.out, instance |-> instance, heap |-> heap]
              ELSE [out |-> RetObj(made.obj), instance |-> instance,
                    heap |-> made.heap]
    ELSE [out |-> AccessedBeforeInit(prop), instance |-> instance, heap |-> heap]

\* a lazy branch of the trap that goes back to the service constructed
\* last, if there is one, in the place of the configuration
ProxyLazyRemembers(prop) ==
  IF heap # <<>>
    THEN [out |-> RetObj(Len(heap)), instance |-> Len(heap), heap |-> heap]
  ELSE IF ConfigHasKeys
    THEN LET made == New(configs.AES_SECRET_KEY, configs.AES_IV)
         IN IF made.out.kind = "throw"
              THEN [out |-> made.out, instance |-> instance, heap |-> heap]
              ELSE [out |-> RetObj(made.obj), instance |-> made.obj,
                    heap |-> made.heap]
    ELSE [out |-> AccessedBeforeInit(prop), instance |-> instance, heap |-> heap]

\* the lazy branch of the proxy's get trap, taken when instance is null
ProxyLazy(prop) ==
  IF ConfigHasKeys
    THEN LET made == New(configs.AES_SECRET_KEY, configs.AES_IV)
         IN IF made.out.kind = "throw"
              THEN [out |-> made.out, instance |-> instance, heap |-> heap]
              ELSE [out |-> RetObj(made.obj), instance |-> made.obj,
                    heap |-> made.heap]
    ELSE [out |-> AccessedBeforeInit(prop), instance |-> instance, heap |-> heap]

\* encryptionService[prop]: the object the trap resolves (out.obj, to which
\* the returned method is bound), singleton and heap afterwards
ProxyGetEffect(prop) ==
  IF instance # Null
    THEN [out |-> RetObj(instance), instance |-> instance, heap |-> heap]
    ELSE ProxyLazy(prop)

\* a readiness that counts a complete configuration as ready
IsReadyConfigured == instance # Null \/ ConfigHasKeys

\* isEncryptionServiceReady()
IsReady == instance # Null

-----------------------------------------------------------------------------
(* Actions: one per exported operation, and the caller's method calls      *)

InitOptions ==
  {[given |-> FALSE, secretKey |-> Undefined, iv |-> Undefined]}
    \cup {[given |-> TRUE, secretKey |-> p[1], iv |-> p[2]] : p \in InitPairs}

\* a step may construct an object only while the model's heap has room
Room(h) == h = heap \/ Len(heap) < MaxObjects

\* the options a caller that seldom reconfigures passes: none, valid
\* overrides, and a key and IV that are too short
FewInitOptions ==
  {o \in InitOptions :
     \/ ~o.given
     \/ <<o.secretKey, o.iv>> \in {<<Str(OtherKey), Str(OtherIv)>>,
                                   <<Str(ShortKey), Str(ShortIv)>>}}

\* initEncryptionService(options), options out of S
InitWith(S) ==
  \E options \in S :
    LET e == InitEffect(options)
    IN /\ loaded
       /\ Room(e.heap)
       /\ instance' = e.instance
       /\ heap' = e.heap
       /\ last' = Call("init", IF options.given THEN "options" ELSE "none",
                       options.secretKey, options.iv, <<>>, e.out)
       /\ UNCHANGED <<env, loaded, configs, ref, held, plaintext, callers>>

InitEncryptionService == InitWith(InitOptions)

Reinitialize == InitWith(FewInitOptions)

\* const encryption = getEncryptionService()
GetEncryptionService ==
  LET e == GetEffect
  IN /\ loaded
     /\ Room(e.heap)
     /\ instance' = e.instance
     /\ heap' = e.heap
     /\ ref' = IF e.out.kind = "return" THEN e.out.obj ELSE ref
     /\ last' = Call("get", "none", Undefined, Undefined, <<>>, e.out)
     /\ UNCHANGED <<env, loaded, configs, held, plaintext, callers>>

IsEncryptionServiceReady ==
  /\ loaded
  /\ last' = Call("isReady", "none", Undefined, Undefined, <<>>, RetBool(IsReady))
  /\ UNCHANGED <<env, loaded, configs, instance, heap, ref, held, plaintext, callers>>

\* a reset that records the call and keeps the instance
ResetKeepsInstance ==
  /\ loaded
  /\ last' = Call("reset", "none", Undefined, Undefined, <<>>, RetVoid)
  /\ UNCHANGED <<env, loaded, configs, instance, heap, ref, held, plaintext, callers>>

ResetEncryptionService ==
  /\ loaded
  /\ instance' = Null
  /\ last' = Call("reset", "none", Undefined, Undefined, <<>>, RetVoid)
  /\ UNCHANGED <<env, loaded, configs, heap, ref, held, plaintext, callers>>

\* const f = encryptionService[prop]: the get trap; f is bound to the
\* object the trap resolved
ProxyGet ==
  \E prop \in Props :
    LET e == ProxyGetEffect(prop)
    IN /\ loaded
       /\ Room(e.heap)
       /\ instance' = e.instance
       /\ heap' = e.heap
       /\ held' = IF e.out.kind = "return"
                    THEN [self |-> e.out.obj, prop |-> prop]
                    ELSE held
       /\ last' = Call("proxy", prop, Undefined, Undefined, <<>>, e.out)
       /\ UNCHANGED <<env, loaded, configs, ref, plaintext, callers>>

\* the arguments the caller passes to a method: its plaintext to encrypt
\* and hash; to decrypt, the ciphertext it just obtained, the ciphertext it
\* just decrypted, or a corrupt one
ArgsFor(prop) ==
  IF prop = "decrypt"
    THEN CorruptInputs
           \cup (IF last.prop = "encrypt" /\ last.out.kind = "return"
                   THEN {last.out.str} ELSE {})
           \cup (IF last.prop = "decrypt" THEN {last.arg} ELSE {})
    ELSE {plaintext}

\* a method call on a service that keeps a running IV: an encryption
\* that follows an encryption starts from the last block of the ciphertext
\* before it
MethodCallChained(op, obj, prop, arg) ==
  LET chain == IF last.prop = "encrypt" /\ last.out.kind = "return"
                 THEN HexDecode(last.out.str) ELSE <<>>
      self == IF chain = <<>> THEN heap[obj]
              ELSE [heap[obj] EXCEPT
                      !.iv = SubSeq(chain, Len(chain) - BlockSize + 1, Len(chain))]
  IN [Call(op, prop, Undefined, Undefined, arg, CallMethod(self, prop, arg))
        EXCEPT !.self = obj,
               !.repeatOf = IF last.self = obj /\ last.prop = prop /\ last.arg = arg
                              THEN last.out ELSE NoOutcome]

\* the record of the method call obj[prop](arg)
MethodCall(op, obj, prop, arg) ==
  [Call(op, prop, Undefined, Undefined, arg, CallMethod(heap[obj], prop, arg))
     EXCEPT !.self = obj,
            !.repeatOf = IF last.self = obj /\ last.prop = prop /\ last.arg = arg
                           THEN last.out ELSE NoOutcome]

\* a call of a method taken from the proxy that goes to the instance that
\* is current at the time of the call
CallHeldCurrent ==
  \E arg \in ArgsFor(held.prop) :
    /\ loaded
    /\ held.self # Null
    /\ instance # Null
    /\ last' = MethodCall("held", instance, held.prop, arg)
    /\ UNCHANGED <<env, loaded, configs, instance, heap, ref, held, plaintext, callers>>

\* f(arg), f taken from the proxy earlier
CallHeld ==
  \E arg \in ArgsFor(held.prop) :
    /\ loaded
    /\ held.self # Null
    /\ last' = MethodCall("held", held.self, held.prop, arg)
    /\ UNCHANGED <<env, loaded, configs, instance, heap, ref, held, plaintext, callers>>

\* encryption[prop](arg) on the caller's reference
CallRef ==
  \E prop \in Props :
    \E arg \in ArgsFor(prop) :
      /\ loaded
      /\ ref # Null
      /\ last' = MethodCall("call", ref, prop, arg)
      /\ UNCHANGED <<env, loaded, configs, instance, heap, ref, held, plaintext, callers>>

\* encryption.decrypt(c) for a ciphertext c that came from elsewhere
DecryptReceived ==
  \E arg \in ReceivedCiphertexts(heap[ref], plaintext) :
    /\ loaded
    /\ ref # Null
    /\ last' = MethodCall("call", ref, "decrypt", arg)
    /\ UNCHANGED <<env, loaded, configs, instance, heap, ref, held, plaintext, callers>>

\* a construction that also installs the new service as the singleton
ConstructShared ==
  \E p \in NewPairs :
    LET made == New(p[1], p[2])
    IN /\ loaded
       /\ Room(made.heap)
       /\ heap' = made.heap
       /\ ref' = IF made.out.kind = "return" THEN made.obj ELSE ref
       /\ instance' = IF made.out.kind = "return" THEN made.obj ELSE instance
       /\ last' = Call("new", "none", p[1], p[2], <<>>, made.out)
       /\ UNCHANGED <<env, loaded, configs, held, plaintext, callers>>

\* const service = new EncryptionService({secretKey, iv}) by the caller
Construct ==
  \E p \in NewPairs :
    LET made == New(p[1], p[2])
    IN /\ loaded
       /\ Room(made.heap)
       /\ heap' = made.heap
       /\ ref' = IF made.out.kind = "return" THEN made.obj ELSE ref
       /\ last' = Call("new", "none", p[1], p[2], <<>>, made.out)
       /\ UNCHANGED <<env, loaded, configs, instance, held, plaintext, callers>>

\* the factory: explicit and lazy initialisation, readiness, reset
Next ==
  \/ InitEncryptionService
  \/ GetEncryptionService
  \/ IsEncryptionServiceReady
  \/ ResetEncryptionService

Spec == Init /\ [][Next]_vars

\* the proxy next to the accessor, and calls of the methods obtained from
\* both.  Method calls change neither the singleton nor the heap, so the
\* lifecycle states reached are those of the factory's operations.
NextProxy ==
  \/ Reinitialize
  \/ GetEncryptionService
  \/ ResetEncryptionService
  \/ ProxyGet
  \/ CallHeld
  \/ CallRef

SpecProxy == Init /\ [][NextProxy]_vars

\* the class on its own: a caller that constructs services and uses them
InitService ==
  /\ Load(NoConfigs)
  /\ plaintext \in Messages

NextService == Construct \/ CallRef

SpecService == InitService /\ [][NextService]_vars

\* The accessor and the trap statement by statement, for callers side by
\* side.  Both are synchronous functions: once a caller is inside, it runs
\* to its return before any other caller takes a step.

\* a host that may switch between callers at every statement
Preemptive(c) == TRUE

\* the host's scheduling: caller c runs only while no other caller is
\* inside a call
RunToCompletion(c) ==
  \A d \in Callers \ {c} : callers[d].pc \in {"idle", "done"}

\* if (instance) return instance  /  instance ?? ...
LazyCheck ==
  \E c \in Callers, via \in {"get", "proxy"} :
    /\ loaded
    /\ RunToCompletion(c)
    /\ callers[c].pc = "idle"
    /\ IF instance # Null
         THEN /\ callers' = [callers EXCEPT ![c] =
                               [Idle EXCEPT !.pc = "done", !.via = via,
                                            !.got = instance]]
              /\ last' = Call(via, IF via = "proxy" THEN "encrypt" ELSE "none",
                              Undefined, Undefined, <<>>, RetObj(instance))
         ELSE /\ callers' = [callers EXCEPT ![c] =
                               [Idle EXCEPT !.pc = "lazy", !.via = via]]
              /\ last' = last
    /\ UNCHANGED <<env, loaded, configs, instance, heap, ref, held, plaintext>>

\* if (AES_SECRET_KEY && AES_IV) new EncryptionService({...}), else throw
LazyConstruct ==
  \E c \in Callers :
    LET made == New(configs.AES_SECRET_KEY, configs.AES_IV)
        failure == IF callers[c].via = "proxy" THEN AccessedBeforeInit("encrypt")
                   ELSE NotInitialized
    IN /\ loaded
       /\ RunToCompletion(c)
       /\ callers[c].pc = "lazy"
       /\ IF ConfigHasKeys /\ made.out.kind = "return"
            THEN /\ Room(made.heap)
                 /\ heap' = made.heap
                 /\ callers' = [callers EXCEPT ![c].pc = "store",
                                               ![c].made = made.obj]
                 /\ last' = last
            ELSE /\ heap' = heap
                 /\ callers' = [callers EXCEPT ![c].pc = "done"]
                 /\ last' = Call(callers[c].via,
                                 IF callers[c].via = "proxy" THEN "encrypt" ELSE "none",
                                 Undefined, Undefined, <<>>,
                                 IF ConfigHasKeys THEN made.out ELSE failure)
       /\ UNCHANGED <<env, loaded, configs, instance, ref, held, plaintext>>

\* instance = (the new service)
LazyStore ==
  \E c \in Callers :
    /\ loaded
    /\ RunToCompletion(c)
    /\ callers[c].pc = "store"
    /\ instance' = callers[c].made
    /\ callers' = [callers EXCEPT ![c].pc = "return"]
    /\ UNCHANGED <<env, loaded, configs, heap, ref, held, plaintext, last>>

\* return instance
LazyReturn ==
  \E c \in Callers :
    /\ loaded
    /\ RunToCompletion(c)
    /\ callers[c].pc = "return"
    /\ callers' = [callers EXCEPT ![c].pc = "done", ![c].got = instance]
    /\ last' = [Call(callers[c].via,
                     IF callers[c].via = "proxy" THEN "encrypt" ELSE "none",
                     Undefined, Undefined, <<>>, RetObj(instance))
                  EXCEPT !.pre = Null, !.preObjects = Len(heap) - 1]
    /\ UNCHANGED <<env, loaded, configs, instance, heap, ref, held, plaintext>>

\* resetEncryptionService() between the calls; the callers that come after
\* it are new ones
ResetBetween ==
  /\ loaded
  /\ \A c \in Callers : callers[c].pc \in {"idle", "done"}
  /\ instance' = Null
  /\ callers' = NoCallers
  /\ last' = Call("reset", "none", Undefined, Undefined, <<>>, RetVoid)
  /\ UNCHANGED <<env, loaded, configs, heap, ref, held, plaintext>>

NextRace ==
  \/ LazyCheck
  \/ LazyConstruct
  \/ LazyStore
  \/ LazyReturn
  \/ ResetBetween

SpecRace == Init /\ [][NextRace]_vars

\* services the caller constructs itself next to the shared singleton
NextExplicit ==
  \/ Construct
  \/ CallRef
  \/ Reinitialize
  \/ GetEncryptionService
  \/ ResetEncryptionService

SpecExplicit == Init /\ [][NextExplicit]_vars

\* the services of a caller that constructed three: one as in the unit
\* tests, one with another key and IV, and a second one with the key and
\* IV of the first; the caller works with one of the first two, on a
\* plaintext out of many
InitCrypto ==
  /\ env = NoConfigs
  /\ loaded = TRUE
  /\ configs = NoConfigs
  /\ instance = Null
  /\ heap = <<Constructor(Str(EnvKey), Str(EnvIv)).fields,
              Constructor(Str(OtherKey), Str(OtherIv)).fields,
              Constructor(Str(EnvKey), Str(EnvIv)).fields>>
  /\ ref \in {1, 2}
  /\ held = NoHeld
  /\ plaintext \in Plaintexts
  /\ last = ModuleLoad(NoConfigs)
  /\ callers = NoCallers

NextCrypto == CallRef \/ DecryptReceived

SpecCrypto == InitCrypto /\ [][NextCrypto]_vars

-----------------------------------------------------------------------------
(* Properties                                                              *)

\* a string without unpaired surrogates: what UTF-8 can carry
WellFormed(s) ==
  \A i \in 1..Len(s) :
    /\ IsHighSurrogate(s[i]) => (i < Len(s) /\ IsLowSurrogate(s[i + 1]))
    /\ IsLowSurrogate(s[i]) => (i > 1 /\ IsHighSurrogate(s[i - 1]))

\* the latest call was a method call (on the caller's reference or through
\* a method taken from the proxy)
IsMethodCall == last.op \in {"call", "held"}

\* the latest call decrypted what encrypt returned for the caller's
\* plaintext on the same object
DecryptedOwnCiphertext ==
  /\ IsMethodCall
  /\ last.prop = "decrypt"
  /\ last.arg = Encrypt(heap[last.self], plaintext).str

\* C1 as stated: decrypt(encrypt(s)) returns exactly s for every string s,
\* and so does decrypting the same ciphertext again.
C1_RoundTripEveryString ==
  DecryptedOwnCiphertext =>
    /\ last.out.kind = "return"
    /\ last.out.str = plaintext

\* C1, amended: decrypt(encrypt(s)) returns exactly s for every string s
\* without unpaired surrogates (the empty string and multi-byte content
\* included); decrypting the same ciphertext again returns the same result,
\* for every s.
C1_RoundTrip ==
  DecryptedOwnCiphertext =>
    /\ last.out.kind = "return"
    /\ WellFormed(plaintext) => last.out.str = plaintext
    /\ last.repeatOf.kind # "none" => last.out = last.repeatOf

\* a surrogate pair and a three-byte character that fill more than one
\* block, decrypted for the second time
C1_Witness ==
  /\ DecryptedOwnCiphertext
  /\ last.repeatOf.kind = "return"
  /\ last.out.str = plaintext
  /\ Len(plaintext) > 2
  /\ IsHighSurrogate(plaintext[1])
  /\ Len(Utf8Encode(plaintext)) >= BlockSize

\* the configuration's values as the factory reads them
CfgKey == configs.AES_SECRET_KEY

CfgIv == configs.AES_IV

CfgBoth == CfgKey.present /\ CfgKey.val # <<>> /\ CfgIv.present /\ CfgIv.val # <<>>

\* the values initEncryptionService works with: the override when the
\* caller passed one (undefined excepted), else the configuration's value
UsedKey == IF last.secretKey.present THEN last.secretKey ELSE CfgKey

UsedIv == IF last.iv.present THEN last.iv ELSE CfgIv

IsMissing(v) == ~v.present \/ v.val = <<>>

\* the latest call was getEncryptionService() in the uninitialized state
GotFromNull == last.op = "get" /\ last.pre = Null

\* C2: with both AES_SECRET_KEY and AES_IV configured and the lifecycle
\* uninitialized, getEncryptionService() returns an instance bound to the
\* configuration's key and IV and stores it as the current instance; from
\* then on isEncryptionServiceReady() returns true, and the current
\* instance is only taken away by a reset or by a disabling initialize.
C2_LazyPath ==
  /\ (GotFromNull /\ CfgBoth) =>
       /\ last.out.kind = "return"
       /\ last.out.obj # Null
       /\ instance = last.out.obj
       /\ ref = last.out.obj
       /\ heap[instance] = [secretKey |-> HexDecode(CfgKey.val),
                            iv |-> HexDecode(CfgIv.val)]
  /\ (last.op = "isReady" /\ instance # Null) => last.out.flag
  /\ (last.pre # Null /\ instance = Null) =>
       \/ last.op = "reset"
       \/ last.op = "init" /\ (IsMissing(UsedKey) \/ IsMissing(UsedIv))

C2_Witness ==
  /\ GotFromNull
  /\ CfgBoth
  /\ last.out.kind = "return"
  /\ instance = last.out.obj
  /\ last.preObjects = 1

\* C3: with the key or the IV missing from the configuration and no
\* instance set, getEncryptionService() fails with the not-initialized
\* error and the lifecycle stays uninitialized, also after a reset, every
\* time.
C3_FailurePath ==
  (GotFromNull /\ ~CfgBoth) =>
    /\ last.out.kind = "throw"
    /\ last.out.error = "NotInitializedError"
    /\ last.out.msg[1] = "[shared] EncryptionService not initialized. "
    /\ instance = Null
    /\ Len(heap) = last.preObjects
    /\ ~IsReady

\* the failure after a time in which an instance existed: the configuration
\* holds a key but no IV
C3_Witness ==
  /\ GotFromNull
  /\ CfgKey.present
  /\ ~CfgIv.present
  /\ last.out.kind = "throw"
  /\ Len(heap) >= 1
  /\ instance = Null

\* C4 as stated: initEncryptionService returns normally for every
\* combination of override arguments and every configuration.
C4_InitNeverThrows == last.op = "init" => last.out.kind = "return"

\* C5: when either resolved value is missing, initEncryptionService sets
\* the current instance to none and returns, whatever the state before.
C5_MissingDisables ==
  (last.op = "init" /\ (IsMissing(UsedKey) \/ IsMissing(UsedIv))) =>
    /\ last.out.kind = "return"
    /\ instance = Null
    /\ ~IsReady
    /\ Len(heap) = last.preObjects

\* a working instance was current, and the call discarded it
C5_Witness ==
  /\ last.op = "init"
  /\ IsMissing(UsedKey) \/ IsMissing(UsedIv)
  /\ last.pre # Null
  /\ instance = Null
  /\ last.out.kind = "return"

\* the object a call constructed, if any: the one past those that existed
Fresh == last.preObjects + 1

\* C6 as stated: after any call of initEncryptionService the current
\* instance is none or an instance constructed by that call from its
\* resolved key and IV; no instance from before the call is current.
C6_InitReplaces ==
  last.op = "init" =>
    \/ instance = Null
    \/ /\ instance = Fresh
       /\ Len(heap) = Fresh
       /\ heap[instance] = [secretKey |-> HexDecode(UsedKey.val),
                            iv |-> HexDecode(UsedIv.val)]

\* the values the claim says are used: the configuration's value also for
\* an override that is empty
ClaimedKey == IF IsMissing(last.secretKey) THEN CfgKey ELSE last.secretKey

ClaimedIv == IF IsMissing(last.iv) THEN CfgIv ELSE last.iv

\* C7 as stated: each field is resolved on its own, the override when
\* the caller supplies one, the configuration's value when the override is
\* absent or empty.
C7_ResolvedAbsentOrEmpty ==
  (last.op = "init" /\ last.out.kind = "return"
     /\ ~IsMissing(ClaimedKey) /\ ~IsMissing(ClaimedIv)) =>
    /\ instance # Null
    /\ heap[instance] = [secretKey |-> HexDecode(ClaimedKey.val),
                         iv |-> HexDecode(ClaimedIv.val)]

\* C7, amended: each field is resolved on its own, the override when the
\* caller passes one, even an empty one, and the configuration's value
\* only when the override is absent; a call that overrides one field pairs
\* it with the configuration's value for the other, and an empty override
\* is not replaced: it leaves the service disabled.
C7_ResolvedByField ==
  (last.op = "init" /\ last.out.kind = "return") =>
    IF IsMissing(UsedKey) \/ IsMissing(UsedIv)
      THEN instance = Null
      ELSE /\ instance = Fresh
           /\ heap[instance] = [secretKey |-> HexDecode(UsedKey.val),
                                iv |-> HexDecode(UsedIv.val)]

\* the key overridden and the IV taken from the configuration
C7_Witness ==
  /\ last.op = "init"
  /\ last.secretKey = Str(OtherKey)
  /\ ~last.iv.present
  /\ CfgIv = Str(EnvIv)
  /\ instance = Fresh
  /\ heap[instance] = [secretKey |-> HexDecode(OtherKey), iv |-> HexDecode(EnvIv)]

\* C8: with no instance set and the key or the IV missing from the
\* configuration, taking any operation from the proxy fails at once with a
\* not-initialized error whose message names the operation, and the
\* lifecycle stays uninitialized.
C8_ProxyFailure ==
  (last.op = "proxy" /\ last.pre = Null /\ ~CfgBoth) =>
    /\ last.prop \in Props
    /\ last.out.kind = "throw"
    /\ last.out.error = "NotInitializedError"
    /\ \E i \in 1..Len(last.out.msg) : last.out.msg[i] = last.prop
    /\ instance = Null
    /\ Len(heap) = last.preObjects
    /\ ~IsReady

C8_Witness ==
  /\ last.op = "proxy"
  /\ last.prop = "hash"
  /\ last.pre = Null
  /\ ~CfgBoth
  /\ last.out.kind = "throw"
  /\ instance = Null

\* encryptionService[prop](arg) in the current state: the result or the
\* failure, and the lifecycle state afterwards
ThroughProxy(prop, arg) ==
  LET e == ProxyGetEffect(prop)
  IN IF e.out.kind = "throw"
       THEN [kind |-> "throw", error |-> e.out.error, str |-> <<>>,
             self |-> Null, instance |-> e.instance, heap |-> e.heap]
       ELSE LET out == CallMethod(e.heap[e.out.obj], prop, arg)
            IN [kind |-> out.kind, error |-> out.error, str |-> out.str,
                self |-> e.out.obj, instance |-> e.instance, heap |-> e.heap]

\* getEncryptionService()[prop](arg) in the current state
ThroughAccessor(prop, arg) ==
  LET e == GetEffect
  IN IF e.out.kind = "throw"
       THEN [kind |-> "throw", error |-> e.out.error, str |-> <<>>,
             self |-> Null, instance |-> e.instance, heap |-> e.heap]
       ELSE LET out == CallMethod(e.heap[e.out.obj], prop, arg)
            IN [kind |-> out.kind, error |-> out.error, str |-> out.str,
                self |-> e.out.obj, instance |-> e.instance, heap |-> e.heap]

C10_ConstructionValidation ==
  last.op = "new" =>
    LET k == last.secretKey
        v == last.iv
    IN /\ (IsMissing(k) \/ IsMissing(v)) => last.out.kind = "throw"
       /\ (~IsMissing(k) /\ ~IsMissing(v)
             /\ (Len(HexDecode(k.val)) # KeyBytes \/ Len(HexDecode(v.val)) # IvBytes))
            => last.out.kind = "throw"
       /\ last.out.kind = "throw" =>
            /\ last.out.error = "ConfigurationError"
            /\ Len(heap) = last.preObjects
       /\ (k.present /\ v.present /\ Len(k.val) = KeyHexLen /\ Len(v.val) = IvHexLen
             /\ IsHexString(k.val) /\ IsHexString(v.val)) =>
            /\ last.out.kind = "return"
            /\ ref = Fresh
            /\ heap[ref] = [secretKey |-> HexDecode(k.val), iv |-> HexDecode(v.val)]

\* the four-character key and IV of the unit test are refused
C10_Witness ==
  /\ last.op = "new"
  /\ last.secretKey = Str(ShortKey)
  /\ last.iv = Str(ShortIv)
  /\ last.out.kind = "throw"

\* C11 as stated: every service that was constructed was given a secretKey
\* of exactly 64 hexadecimal digits and an iv of exactly 32 hexadecimal
\* digits; every other string is refused by the constructor.
C11_ExactKeyMaterial ==
  (last.op = "new" /\ last.out.kind = "return") =>
    /\ Len(last.secretKey.val) = KeyHexLen
    /\ IsHexString(last.secretKey.val)
    /\ Len(last.iv.val) = IvHexLen
    /\ IsHexString(last.iv.val)

\* the latest call was decrypt
DecryptCall == IsMethodCall /\ last.prop = "decrypt"

\* the bytes decrypt decodes from its argument
ReceivedBytes == HexDecode(last.arg)

\* a positive number of whole blocks
BlockAligned(b) == Len(b) > 0 /\ Len(b) % BlockSize = 0

\* the bytes the CBC decryption of the argument gives, padding included
DecryptedBytes ==
  CbcDecrypt(heap[last.self].secretKey, heap[last.self].iv, ReceivedBytes)

\* bytes that are the UTF-8 form of some string
IsValidUtf8(b) == Utf8Encode(Utf8Decode(b)) = b

\* the latest call failed with the decryption error and returned nothing
DecryptFailed ==
  /\ last.out.kind = "throw"
  /\ last.out.error = "DecryptionError"
  /\ last.out.msg[1] = "Decryption failed: "
  /\ last.out.str = <<>>

C13_GenericDecryptMessage ==
  (DecryptCall /\ last.out.kind = "throw") =>
    /\ last.out.msg = <<"Decryption failed: ">>
    /\ \A c \in CorruptInputs :
         LET o == Decrypt(heap[last.self], c)
         IN o.kind = "throw" => o.msg = last.out.msg

\* the characters of a lowercase hexadecimal string
IsLowerHex(s) ==
  \A i \in 1..Len(s) : (s[i] >= 48 /\ s[i] <= 57) \/ (s[i] >= 97 /\ s[i] <= 102)

\* C14: hash(s) is a string of 64 lowercase hexadecimal digits for every
\* string s, a repeated call returns the same value, and every instance,
\* whatever its key and IV, returns the same hash(s).
C14_HashDeterministic ==
  (IsMethodCall /\ last.prop = "hash") =>
    /\ last.out.kind = "return"
    /\ Len(last.out.str) = 2 * DigestBytes
    /\ IsLowerHex(last.out.str)
    /\ last.repeatOf.kind # "none" => last.out = last.repeatOf
    /\ \A o \in 1..Len(heap) : Hash(heap[o], last.arg) = last.out

\* a string with an unpaired surrogate hashed for the second time, next to
\* an instance with another key
C14_Witness ==
  /\ IsMethodCall
  /\ last.prop = "hash"
  /\ last.arg = plaintext
  /\ ~WellFormed(plaintext)
  /\ last.repeatOf.kind = "return"
  /\ \E o \in 1..Len(heap) : heap[o].secretKey # heap[last.self].secretKey

\* C15: encrypt(s) on one instance returns the same ciphertext every time,
\* whatever encrypt, decrypt or hash calls came before it, and every
\* instance bound to the same key and IV returns that ciphertext for s;
\* it is the ciphertext of s under the instance's key with the
\* instance's IV as the first chaining block.
C15_FixedIvDeterminism ==
  (IsMethodCall /\ last.prop = "encrypt") =>
    /\ last.out.kind = "return"
    /\ last.repeatOf.kind # "none" => last.out = last.repeatOf
    /\ last.out.str =
         HexEncode(CbcEncrypt(heap[last.self].secretKey, heap[last.self].iv,
                              Pkcs7Pad(Utf8Encode(last.arg))))
    /\ \A o \in 1..Len(heap) :
         heap[o] = heap[last.self] => Encrypt(heap[o], last.arg) = last.out

\* the second of two encryptions in a row, of a text of more than one
\* block, next to another instance with the same key and IV
C15_Witness ==
  /\ IsMethodCall
  /\ last.prop = "encrypt"
  /\ last.repeatOf.kind = "return"
  /\ Len(last.out.str) > 4 * BlockSize
  /\ \E o \in 1..Len(heap) : o # last.self /\ heap[o] = heap[last.self]

\* C16: isEncryptionServiceReady() returns true exactly when a current
\* instance is set at the time of the call, and changes nothing: in the
\* uninitialized state it returns false and constructs no instance, also
\* when the configuration holds a valid key and IV.
C16_IsReadyPure ==
  last.op = "isReady" =>
    /\ last.out = RetBool(last.pre # Null)
    /\ instance = last.pre
    /\ Len(heap) = last.preObjects

\* asked in the uninitialized state with a complete configuration, after
\* an instance had existed
C16_Witness ==
  /\ last.op = "isReady"
  /\ CfgBoth
  /\ last.pre = Null
  /\ last.out = RetBool(FALSE)
  /\ instance = Null
  /\ Len(heap) >= 1

\* C17: resetEncryptionService() returns normally from every state and
\* leaves the lifecycle uninitialized: isEncryptionServiceReady() is false
\* right after it, and no object is constructed.
C17_ResetUninitializes ==
  last.op = "reset" =>
    /\ last.out = RetVoid
    /\ instance = Null
    /\ ~IsReady
    /\ Len(heap) = last.preObjects

\* a reset that took a current instance away
C17_Witness ==
  /\ last.op = "reset"
  /\ last.pre # Null
  /\ instance = Null
  /\ last.out.kind = "return"

\* C18: while a current instance is set, getEncryptionService() returns it
\* and a proxy access binds to it, and neither constructs an object; the
\* current instance changes only in initEncryptionService, in
\* resetEncryptionService, and in the lazy initialisation from the
\* uninitialized state; there is one current instance at most, an object
\* that was constructed.
C18_Singleton ==
  /\ (last.op \in {"get", "proxy"} /\ last.pre # Null) =>
       /\ last.out = RetObj(last.pre)
       /\ instance = last.pre
       /\ Len(heap) = last.preObjects
       /\ last.op = "get" => ref = last.pre
       /\ last.op = "proxy" => held.self = last.pre
  /\ (last.op # "load" /\ instance # last.pre) =>
       \/ last.op \in {"init", "reset"}
       \/ last.op \in {"get", "proxy"} /\ last.pre = Null
  /\ instance \in {Null} \cup (1..Len(heap))

\* a proxy access that bound to the instance the accessor had returned
\* before, with a complete configuration at hand
C18_Witness ==
  /\ last.op = "proxy"
  /\ last.pre # Null
  /\ CfgBoth
  /\ ref = instance
  /\ held.self = instance
  /\ Len(heap) = 1

\* neither AES_SECRET_KEY nor AES_IV is set in the environment
NoKeyMaterial == ~env.AES_SECRET_KEY.present /\ ~env.AES_IV.present

MissingOrInvalid(v, n) ==
  ~v.present \/ Len(v.val) # n \/ ~IsHexString(v.val)

\* C20 as stated: when AES_SECRET_KEY or AES_IV is missing or is not a
\* hexadecimal string of the required length, loading the configuration
\* throws.
C20_LoadValidates ==
  (MissingOrInvalid(env.AES_SECRET_KEY, KeyHexLen)
     \/ MissingOrInvalid(env.AES_IV, IvHexLen)) =>
    /\ ~loaded
    /\ last.op = "load"
    /\ last.out.kind = "throw"

\* the fields of a service constructed from a key and an IV given in
\* hexadecimal
Bound(k, v) == [secretKey |-> HexDecode(k.val), iv |-> HexDecode(v.val)]

\* the keys and IVs a current instance may be bound to: the configuration's
\* and those the callers pass to initEncryptionService
KeysGiven ==
  {HexDecode(CfgKey.val)}
    \cup {HexDecode(o.secretKey.val) : o \in {x \in InitOptions : x.given}}

IvsGiven ==
  {HexDecode(CfgIv.val)}
    \cup {HexDecode(o.iv.val) : o \in {x \in InitOptions : x.given}}

\* the latest call was a lazy initialisation attempt: the accessor or the
\* proxy in the uninitialized state
LazyAttempt == last.op \in {"get", "proxy"} /\ last.pre = Null

\* C22: in every reachable state the current instance, if any, is bound to
\* a key and an IV that came from the configuration or from an override
\* passed to initEncryptionService; lazy initialisation binds the
\* configuration's values only, and binds nothing and fails when the
\* configuration lacks a value; there is no default key.
C22_NoForeignKey ==
  /\ instance # Null =>
       /\ heap[instance].secretKey \in KeysGiven
       /\ heap[instance].iv \in IvsGiven
  /\ (last.op = "init" /\ last.out.kind = "return" /\ instance # Null) =>
       heap[instance] = Bound(UsedKey, UsedIv)
  /\ (LazyAttempt /\ CfgBoth) =>
       /\ instance = Fresh
       /\ heap[instance] = Bound(CfgKey, CfgIv)
  /\ (LazyAttempt /\ ~CfgBoth) =>
       /\ last.out.kind = "throw"
       /\ instance = Null
       /\ Len(heap) = last.preObjects

\* the accessor bound the configuration's key and IV in a process that
\* had constructed nothing before
C22_Witness ==
  /\ last.op = "get"
  /\ last.pre = Null
  /\ CfgBoth
  /\ Len(heap) = 1
  /\ instance = 1
  /\ heap[1] = Bound(Str(EnvKey), Str(EnvIv))

\* the latest call was initEncryptionService with a key and an IV of its
\* own, and it installed an instance
OverrideInit ==
  /\ last.op = "init"
  /\ last.secretKey.present
  /\ last.iv.present
  /\ last.out.kind = "return"
  /\ instance # Null

\* C24: after initEncryptionService with valid overrides, with a complete
\* configuration at hand, getEncryptionService() and the proxy use the
\* instance bound to the overrides; after resetEncryptionService() the
\* next getEncryptionService() or proxy access constructs an instance
\* bound to the configuration's values, not to the overrides of before.
C24_OverrideNotRemembered ==
  /\ (OverrideInit /\ CfgBoth) =>
       /\ instance = Fresh
       /\ heap[instance] = Bound(last.secretKey, last.iv)
       /\ GetEffect = [out |-> RetObj(instance), instance |-> instance, heap |-> heap]
       /\ \A prop \in Props : ProxyGetEffect(prop) = GetEffect
  /\ (last.op = "reset" /\ CfgBoth) =>
       /\ GetEffect.out = RetObj(Len(heap) + 1)
       /\ GetEffect.instance = Len(heap) + 1
       /\ GetEffect.heap = Append(heap, Bound(CfgKey, CfgIv))
       /\ \A prop \in Props : ProxyGetEffect(prop) = GetEffect
  /\ (LazyAttempt /\ CfgBoth) =>
       /\ last.out = RetObj(Fresh)
       /\ instance = Fresh
       /\ Len(heap) = Fresh
       /\ heap[Fresh] = Bound(CfgKey, CfgIv)

\* an instance with the overrides' key was constructed first, the lifecycle
\* was reset, and the proxy access that followed constructed an instance
\* with the configuration's key
C24_Witness ==
  /\ last.op = "proxy"
  /\ last.pre = Null
  /\ Len(heap) = 2
  /\ heap[1] = Bound(Str(OtherKey), Str(OtherIv))
  /\ instance = 2
  /\ heap[2] = Bound(Str(EnvKey), Str(EnvIv))

\* C25: a method taken from the proxy is bound to the instance that was
\* current, or was created lazily, at the access: the binding is made by
\* the access and by nothing else, and a later call of the method runs on
\* that instance with its key and IV and never fails as uninitialized,
\* whatever initEncryptionService or resetEncryptionService did in between.
C25_HeldMethodBound ==
  /\ [](last.op = "proxy" /\ last.out.kind = "return" =>
          held = [self |-> instance, prop |-> last.prop])
  /\ [][held' # held => last'.op = "proxy"]_vars
  /\ [](last.op = "held" =>
          /\ last.self = held.self
          /\ last.prop = held.prop
          /\ last.out = CallMethod(heap[held.self], held.prop, last.arg)
          /\ last.out.error # "NotInitializedError"
          /\ last.prop \in {"encrypt", "hash"} => last.out.kind = "return")

\* encrypt taken from the proxy, the service initialized again with another
\* key, and the held encrypt called: it used the key of the first instance
C25_Witness ==
  /\ last.op = "held"
  /\ last.prop = "encrypt"
  /\ instance # Null
  /\ held.self # instance
  /\ heap[held.self].secretKey # heap[instance].secretKey
  /\ last.out = Encrypt(heap[held.self], plaintext)
  /\ last.out # Encrypt(heap[instance], plaintext)

\* C21: constructing a service directly and calling its methods never
\* changes the lifecycle's current instance (nor its readiness), and no
\* operation, initEncryptionService, resetEncryptionService and the lazy
\* initialisation included, changes the key or IV of a service that was
\* constructed: they are the same in every later state.
C21_ExplicitIndependent ==
  /\ [][last'.op \in {"new", "call"} =>
          (instance' = instance /\ IsReady' = IsReady)]_vars
  /\ [][/\ Len(heap') >= Len(heap)
        /\ \A o \in 1..Len(heap) : heap'[o] = heap[o]]_vars

\* encrypt called on a service the caller constructed, while a singleton
\* with another key is current
C21_Witness ==
  /\ last.op = "call"
  /\ last.prop = "encrypt"
  /\ instance # Null
  /\ last.self # instance
  /\ heap[last.self] # heap[instance]
  /\ last.out.kind = "return"

\* the callers that have an instance in hand
Served == {c \in Callers : callers[c].pc = "done" /\ callers[c].got # Null}

\* the callers that constructed an instance lazily
Makers == {c \in Callers : callers[c].made # Null}

\* C23: with the accessor and the trap run to completion one caller at a
\* time, all callers between two reset or initialize calls obtain the same
\* instance, the current one, and one instance at most is constructed
\* lazily.  (With the check, the construction and the store interleavable
\* between callers this fails: two callers construct and hold different
\* instances.)
C23_RacingLazyInit ==
  /\ \A c \in Served : \A d \in Served : callers[c].got = callers[d].got
  /\ \A c \in Served : callers[c].got = instance
  /\ Cardinality(Makers) <= 1

\* the first caller came through the accessor and constructed the
\* instance, the second came through the proxy and was given the same one
C23_Witness ==
  /\ Served = Callers
  /\ Cardinality(Makers) = 1
  /\ \E c \in Makers : callers[c].via = "get"
  /\ \E c \in Callers \ Makers : callers[c].via = "proxy"
  /\ \A c \in Callers : callers[c].got = instance

C27_CiphertextLength ==
  (IsMethodCall /\ last.prop = "encrypt") =>
    LET n == Len(Utf8Encode(last.arg))
    IN /\ last.out.kind = "return"
       /\ Len(last.out.str) > 0
       /\ Len(last.out.str) = 2 * BlockSize * ((n \div BlockSize) + 1)
       /\ IsLowerHex(last.out.str)

\* sixteen bytes of plaintext: one block of text and one block of padding
C27_Witness ==
  /\ IsMethodCall
  /\ last.prop = "encrypt"
  /\ Len(Utf8Encode(last.arg)) = BlockSize
  /\ Len(last.out.str) = 4 * BlockSize

=============================================================================
